---- MODULE Spec2Model ----
(***************************************************************************)
(* Model of mesonbuild/mcompile.py: the backend agnostic 'compile' entry   *)
(* point.  One call of run(options) is followed statement by statement:    *)
(* build directory checks, get_backend_from_introspect, the per-backend    *)
(* branch that resolves the driver and builds cmd, Popen_safe, return.     *)
(***************************************************************************)
EXTENDS Integers, Sequences, FiniteSets, TLC

(* ------------------------------ bounds --------------------------------- *)
MaxJobs == 12
MaxLoad == 10
MaxRecords == 2
MaxSlns == 2
MaxStatus == 2

(* ------------------------- Python values ------------------------------- *)
\* Python's None, for the str-or-None values (runner, os.environ.get).
None == "<None>"

Digits == <<"0", "1", "2", "3", "4", "5", "6", "7", "8", "9">>

RECURSIVE StrNat(_)
StrNat(n) == IF n < 10 THEN Digits[n + 1]
             ELSE StrNat(n \div 10) \o Digits[(n % 10) + 1]

\* str(int)
Str(n) == IF n < 0 THEN "-" \o StrNat(0 - n) ELSE StrNat(n)

\* truth value of a str-or-None: None and '' are falsy
Truthy(s) == s # None /\ s # ""

(* ------------------------------ pathlib -------------------------------- *)
\* A Path is an anchor ("" when relative) and its components.
RECURSIVE Join(_, _)
Join(parts, sep) ==
    IF parts = <<>> THEN ""
    ELSE IF Len(parts) = 1 THEN parts[1]
    ELSE parts[1] \o sep \o Join(Tail(parts), sep)

Sep(osname) == IF osname = "nt" THEN "\\" ELSE "/"

CwdPath(osname) == IF osname = "nt"
                   THEN [anchor |-> "C:\\", parts |-> <<"work">>]
                   ELSE [anchor |-> "/", parts |-> <<"work">>]

\* str(path): native separators
PathStr(p, osname) ==
    IF p.anchor = "" /\ p.parts = <<>> THEN "."
    ELSE p.anchor \o Join(p.parts, Sep(osname))

\* path.as_posix(): forward slashes whatever the flavour
AsPosix(p) ==
    IF p.anchor = "" /\ p.parts = <<>> THEN "."
    ELSE (IF p.anchor = "C:\\" THEN "C:/" ELSE p.anchor) \o Join(p.parts, "/")

\* path.resolve(): make absolute against the working directory
Resolve(p, osname) ==
    IF p.anchor # "" THEN p
    ELSE [anchor |-> CwdPath(osname).anchor,
          parts |-> CwdPath(osname).parts \o p.parts]

\* path / name
Child(p, name) == [anchor |-> p.anchor, parts |-> Append(p.parts, name)]

\* path.name
PathName(p) == IF p.parts = <<>> THEN "" ELSE p.parts[Len(p.parts)]

(* ------------------------------ inputs --------------------------------- *)
BuildDirs == { [anchor |-> "", parts |-> <<"out", "build">>] }
OsNames == {"posix", "nt"}
DirStates == {"missing", "file", "dir"}

JobsValues == {-1, 0, 1, MaxJobs}
LoadValues == {-1, 0, MaxLoad}
ExitStatuses == {-2, 0, 1, MaxStatus}

Options == [builddir : BuildDirs, jobs : JobsValues,
            load_average : LoadValues, clean : BOOLEAN]

\* option records of intro-buildoptions.json
Records == { [name |-> "backend", value |-> "ninja"],
             [name |-> "backend", value |-> "vs2019"],
             [name |-> "backend", value |-> "xcode"],
             [name |-> "buildtype", value |-> "ninja"] }

Schemas == UNION { [1..n -> Records] : n \in 0..MaxRecords }

\* <builddir>/meson-info/intro-buildoptions.json as found on disk
IntroFiles ==
    { [exists |-> FALSE, wellformed |-> FALSE, schema |-> <<>>],
      [exists |-> TRUE, wellformed |-> FALSE, schema |-> <<>>] }
    \cup { [exists |-> TRUE, wellformed |-> TRUE, schema |-> s] : s \in Schemas }

NinjaEnv == {None, "", "custom-runner"}
PathExecs == SUBSET {"ninja", "samu"}

\* names of the solution files a build directory may hold
SlnName(i) == "p" \o Str(i) \o ".sln"

RECURSIVE SortedSeq(_)
SortedSeq(S) ==
    IF S = {} THEN <<>>
    ELSE LET m == CHOOSE x \in S : \A y \in S : x <= y
         IN <<m>> \o SortedSeq(S \ {m})

(* ------------------------------ errors --------------------------------- *)
NoError == [type |-> "none", msg |-> ""]
MesonException(m) == [type |-> "MesonException", msg |-> m]
AssertionError(m) == [type |-> "AssertionError", msg |-> m]
JSONDecodeError == [type |-> "JSONDecodeError", msg |-> ""]
OSError == [type |-> "OSError", msg |-> ""]

NoChild == [state |-> "none", status |-> 0]

IntroName == "intro-buildoptions.json"
IntroPath(bdir) == Child(Child(bdir, "meson-info"), IntroName)

MsgNoBuildDir(bdir, osname) ==
    "Path to builddir " \o PathStr(Resolve(bdir, osname), osname) \o " does not exist!"
MsgNotDir == "builddir path should be a directory."
MsgIntroMissing(bdir) ==
    "'" \o PathName(IntroPath(bdir)) \o "' is missing! Directory is not configured yet?"
MsgBackendMissing(bdir) ==
    "'" \o PathName(IntroPath(bdir)) \o "' is missing 'backend' option!"
\* (TLA+ strings cannot hold a backquote: the messages use ' in its place)
MsgNoRunner == "Cannot find either ninja or samu."
MsgSlnAssert == "More than one solution in a project?"
MsgUnsupported(b) ==
    "Backend '" \o b \o "' is not yet supported by 'compile'. Use generated project files directly instead."
MsgLoadIgnored == "Msbuild does not have a load-average switch, ignoring."

(* --------------------- get_backend_from_introspect --------------------- *)
\* index of the first option named 'backend' at or after i, 0 when none
RECURSIVE FirstBackendFrom(_, _)
FirstBackendFrom(schema, i) ==
    IF i > Len(schema) THEN 0
    ELSE IF schema[i].name = "backend" THEN i
    ELSE FirstBackendFrom(schema, i + 1)

\* variant of FirstBackend: the last option named 'backend' wins
LastBackend(schema) ==
    IF \A i \in DOMAIN schema : schema[i].name # "backend" THEN 0
    ELSE CHOOSE i \in DOMAIN schema :
           /\ schema[i].name = "backend"
           /\ \A j \in DOMAIN schema : j > i => schema[j].name # "backend"

FirstBackend(schema) == FirstBackendFrom(schema, 1)

\* outcome of get_backend_from_introspect(bdir) on the file found on disk
get_backend_from_introspect(bdir, file) ==
    IF ~file.exists
    THEN [error |-> MesonException(MsgIntroMissing(bdir)), value |-> None]
    ELSE IF ~file.wellformed
    THEN [error |-> JSONDecodeError, value |-> None]
    ELSE IF FirstBackend(file.schema) = 0
    THEN [error |-> MesonException(MsgBackendMissing(bdir)), value |-> None]
    ELSE [error |-> NoError, value |-> file.schema[FirstBackend(file.schema)].value]

(* ------------------------- driver resolution --------------------------- *)
\* shutil.which(name) against the executables on the search path
Which(name, onPath) == IF name \in onPath THEN name ELSE None

\* variant of ResolveRunner: the search path consulted before the override
ResolveRunner_PathFirst(envNinja, onPath) ==
    IF Truthy(Which("ninja", onPath)) THEN "ninja"
    ELSE IF Truthy(envNinja) THEN envNinja
    ELSE IF Truthy(Which("samu", onPath)) THEN "samu"
    ELSE envNinja

\* lines 88-93: the runner chosen for backend 'ninja'
ResolveRunner(envNinja, onPath) ==
    IF Truthy(envNinja) THEN envNinja
    ELSE IF Truthy(Which("ninja", onPath)) THEN "ninja"
    ELSE IF Truthy(Which("samu", onPath)) THEN "samu"
    ELSE envNinja

\* line 95: the guard of the 'Cannot find either ninja or samu.' error
RunnerMissing(r) == r = None

\* variant of SlnCountOK: only the empty scan rejected
SlnCountOK_AtLeastOne(found) == Len(found) >= 1

\* line 112: the condition of the assert on the solutions found
SlnCountOK(found) == Len(found) = 1

\* variant of StartsWithVs: every backend other than ninja taken for msbuild
StartsWithVs_Any(b) == TRUE

\* backend.startswith('vs'), on the backend values of Records
StartsWithVs(b) == b \in {"vs", "vs2019"}

(* ------------------------- command synthesis --------------------------- *)
\* variant of NinjaCmd: the flags passed from 0 upwards
NinjaCmd_FromZero(r, opts) ==
    <<r, "-C", AsPosix(opts.builddir)>>
    \o (IF opts.jobs >= 0 THEN <<"-j", Str(opts.jobs)>> ELSE <<>>)
    \o (IF opts.load_average >= 0 THEN <<"-l", Str(opts.load_average)>> ELSE <<>>)
    \o (IF opts.clean THEN <<"clean">> ELSE <<>>)

\* lines 99-108
NinjaCmd(r, opts) ==
    <<r, "-C", AsPosix(opts.builddir)>>
    \o (IF opts.jobs > 0 THEN <<"-j", Str(opts.jobs)>> ELSE <<>>)
    \o (IF opts.load_average > 0 THEN <<"-l", Str(opts.load_average)>> ELSE <<>>)
    \o (IF opts.clean THEN <<"clean">> ELSE <<>>)

\* variant of VsCmd: the number always attached to -m
VsCmd_AlwaysNumber(sln, opts, osname) ==
    <<"msbuild", PathStr(Resolve(sln, osname), osname)>>
    \o <<"-m" \o Str(opts.jobs)>>
    \o (IF opts.clean THEN <<"/t:Clean">> ELSE <<>>)

\* lines 115-126
VsCmd(sln, opts, osname) ==
    <<"msbuild", PathStr(Resolve(sln, osname), osname)>>
    \o (IF opts.jobs > 0 THEN <<"-m" \o Str(opts.jobs)>> ELSE <<"-m">>)
    \o (IF opts.clean THEN <<"/t:Clean">> ELSE <<>>)

\* variant of VsWarns: only a positive load average warned about
VsWarns_Positive(opts) == opts.load_average > 0

\* line 123: the condition of the load-average warning
VsWarns(opts) == opts.load_average # 0

\* variant of ReturnValue: the status collapsed to success / failure
ReturnValue_Normalised(rc) == IF rc = 0 THEN 0 ELSE 1

\* line 135: the value run returns
ReturnValue(rc) == rc

(* ------------------------------- state --------------------------------- *)
VARIABLES
    options,    \* the argparse namespace passed to run
    osname,     \* path flavour of the platform
    dirState,   \* what options.builddir is on disk
    introFile,  \* the introspection file on disk
    environ,    \* os.environ.get('NINJA')
    onPath,     \* which of ninja, samu are on the search path
    pc,         \* position in run
    backend,    \* local 'backend'
    runner,     \* local 'runner'
    slns,       \* local 'slns'
    cmd,        \* local 'cmd'
    error,      \* the exception run raised, NoError if none
    accessed,   \* the outside resources consulted so far, in order
    logged,     \* mlog.log / mlog.warning messages, in order
    spawned,    \* number of child processes started
    child,      \* the child process: its state and exit status
    returncode, \* p.returncode
    returned,   \* TRUE once run returned normally
    result      \* the value run returned

vars == <<options, osname, dirState, introFile, environ, onPath, pc, backend,
          runner, slns, cmd, error, accessed, logged, spawned, child,
          returncode, returned, result>>

inputs == <<options, osname, dirState, introFile, environ, onPath>>

Init ==
    /\ options \in Options
    /\ osname \in OsNames
    /\ dirState \in DirStates
    /\ introFile \in IntroFiles
    /\ environ \in NinjaEnv
    /\ onPath \in PathExecs
    /\ pc = "exists"
    /\ backend = None
    /\ runner = None
    /\ slns = <<>>
    /\ cmd = <<>>
    /\ error = NoError
    /\ accessed = <<>>
    /\ logged = <<>>
    /\ spawned = 0
    /\ child = NoChild
    /\ returncode = 0
    /\ returned = FALSE
    /\ result = 0

Raise(e) == /\ error' = e
            /\ pc' = "done"

\* variant of CheckExists: the existence test left out
CheckExists_NoRaise ==
    /\ pc = "exists"
    /\ accessed' = Append(accessed, "stat")
    /\ pc' = "is_dir"
    /\ UNCHANGED <<inputs, backend, runner, slns, cmd, error, logged, spawned,
                   child, returncode, returned, result>>

\* lines 79-80
CheckExists ==
    /\ pc = "exists"
    /\ accessed' = Append(accessed, "stat")
    /\ IF dirState = "missing"
       THEN Raise(MesonException(MsgNoBuildDir(options.builddir, osname)))
       ELSE pc' = "is_dir" /\ error' = error
    /\ UNCHANGED <<inputs, backend, runner, slns, cmd, logged, spawned,
                   child, returncode, returned, result>>

\* lines 81-82
CheckIsDir ==
    /\ pc = "is_dir"
    /\ accessed' = Append(accessed, "stat")
    /\ IF dirState # "dir"
       THEN Raise(MesonException(MsgNotDir))
       ELSE pc' = "introspect" /\ error' = error
    /\ UNCHANGED <<inputs, backend, runner, slns, cmd, logged, spawned,
                   child, returncode, returned, result>>

\* line 86 (lines 31-44)
GetBackend ==
    /\ pc = "introspect"
    /\ LET r == get_backend_from_introspect(options.builddir, introFile)
       IN /\ accessed' = Append(accessed, "intro")
          /\ backend' = r.value
          /\ IF r.error # NoError
             THEN Raise(r.error)
             ELSE pc' = "dispatch" /\ error' = error
    /\ UNCHANGED <<inputs, runner, slns, cmd, logged, spawned,
                   child, returncode, returned, result>>

\* lines 87-108
NinjaBranch ==
    /\ pc = "dispatch"
    /\ backend = "ninja"
    /\ LET r == ResolveRunner(environ, onPath)
       IN /\ runner' = r
          /\ accessed' = accessed \o <<"getenv">>
                \o (IF Truthy(environ) THEN <<>> ELSE <<"which ninja">>)
                \o (IF Truthy(environ) \/ "ninja" \in onPath
                    THEN <<>> ELSE <<"which samu">>)
          /\ IF RunnerMissing(r)
             THEN /\ Raise(MesonException(MsgNoRunner))
                  /\ UNCHANGED <<cmd, logged>>
             ELSE /\ logged' = Append(logged, "Found runner: " \o r)
                  /\ cmd' = NinjaCmd(r, options)
                  /\ pc' = "spawn"
                  /\ error' = error
    /\ UNCHANGED <<inputs, backend, slns, spawned, child, returncode,
                   returned, result>>

\* lines 110-126
VsBranch ==
    /\ pc = "dispatch"
    /\ backend # "ninja"
    /\ StartsWithVs(backend)
    /\ \E S \in SUBSET (1..MaxSlns) :
         LET found == [i \in 1..Cardinality(S) |->
                          Child(options.builddir, SlnName(SortedSeq(S)[i]))]
         IN /\ slns' = found
            /\ accessed' = Append(accessed, "glob")
            /\ IF ~SlnCountOK(found)
               THEN /\ Raise(AssertionError(MsgSlnAssert))
                    /\ UNCHANGED <<cmd, logged>>
               ELSE /\ cmd' = VsCmd(found[1], options, osname)
                    /\ logged' = IF VsWarns(options)
                                 THEN Append(logged, "WARNING: " \o MsgLoadIgnored)
                                 ELSE logged
                    /\ pc' = "spawn"
                    /\ error' = error
    /\ UNCHANGED <<inputs, backend, runner, spawned, child, returncode,
                   returned, result>>

\* lines 129-131
UnsupportedBranch ==
    /\ pc = "dispatch"
    /\ backend # "ninja"
    /\ ~StartsWithVs(backend)
    /\ Raise(MesonException(MsgUnsupported(backend)))
    /\ UNCHANGED <<inputs, backend, runner, slns, cmd, accessed, logged,
                   spawned, child, returncode, returned, result>>

\* can the platform start a process from this executable name
Startable(exe) == exe # ""

\* line 133, Popen_safe: subprocess.Popen starts the child or raises
PopenStart ==
    /\ pc = "spawn"
    /\ accessed' = Append(accessed, "spawn")
    /\ \E ok \in BOOLEAN :
         /\ ok => Startable(cmd[1])
         /\ IF ok
            THEN /\ spawned' = spawned + 1
                 /\ child' = [state |-> "running", status |-> 0]
                 /\ pc' = "communicate"
                 /\ error' = error
            ELSE /\ Raise(OSError)
                 /\ UNCHANGED <<spawned, child>>
    /\ UNCHANGED <<inputs, backend, runner, slns, cmd, logged, returncode,
                   returned, result>>

\* line 133, Popen_safe: p.communicate() blocks until the child exits
PopenCommunicate ==
    /\ pc = "communicate"
    /\ child.state = "running"
    /\ \E status \in ExitStatuses :
         /\ child' = [state |-> "exited", status |-> status]
         /\ returncode' = status
    /\ pc' = "return"
    /\ UNCHANGED <<inputs, backend, runner, slns, cmd, error, accessed, logged,
                   spawned, returned, result>>

\* line 135
Return ==
    /\ pc = "return"
    /\ result' = ReturnValue(returncode)
    /\ returned' = TRUE
    /\ pc' = "done"
    /\ UNCHANGED <<inputs, backend, runner, slns, cmd, error, accessed, logged,
                   spawned, child, returncode>>

Next ==
    \/ CheckExists
    \/ CheckIsDir
    \/ GetBackend
    \/ NinjaBranch
    \/ VsBranch
    \/ UnsupportedBranch
    \/ PopenStart
    \/ PopenCommunicate
    \/ Return

Spec == Init /\ [][Next]_vars

(* ======================== properties of run ============================ *)
Accessed(what) == \E i \in DOMAIN accessed : accessed[i] = what

\* the introspection file parses to a list whose first option named
\* 'backend' has value b
BackendRecorded(b) ==
    /\ introFile.exists
    /\ introFile.wellformed
    /\ \E i \in DOMAIN introFile.schema :
         /\ introFile.schema[i] = [name |-> "backend", value |-> b]
         /\ \A j \in 1..(i - 1) : introFile.schema[j].name # "backend"

NoBackendRecord ==
    /\ introFile.exists
    /\ introFile.wellformed
    /\ \A i \in DOMAIN introFile.schema : introFile.schema[i].name # "backend"

VsRecorded == BackendRecorded("vs2019") \/ BackendRecorded("vs")

\* run got as far as choosing the branch for the recorded backend
ReachedNinja == dirState = "dir" /\ BackendRecorded("ninja") /\ Accessed("getenv")
ReachedVs == dirState = "dir" /\ VsRecorded /\ Accessed("glob")

\* no resolution step yields a runner
NoRunnerAnywhere ==
    /\ environ \in {None, ""}
    /\ "ninja" \notin onPath
    /\ "samu" \notin onPath

(* C1 as stated: every run that reaches the spawn step with a resolved     *)
(* driver spawns exactly one child and returns that child's exit status.   *)
C1_Original ==
    (pc = "done" /\ Accessed("spawn") /\ (ReachedNinja => Truthy(runner)))
        => (spawned = 1 /\ returned /\ result = child.status)

(* C1: at most one child is ever spawned; a run whose spawn succeeds has   *)
(* exactly one child and returns that child's exit status unchanged; a run *)
(* whose spawn fails raises, with no child and no return value.            *)
C1_ExitStatusRelayed ==
    /\ spawned <= 1
    /\ returned => (spawned = 1 /\ child.state = "exited" /\ error = NoError
                    /\ result = child.status)
    /\ (pc = "done" /\ Accessed("spawn") /\ error = NoError)
           => (spawned = 1 /\ returned /\ result = child.status)
    /\ (pc = "done" /\ Accessed("spawn") /\ error # NoError)
           => (spawned = 0 /\ ~returned /\ error.type = "OSError")

C1_Witness ==
    /\ pc = "done" /\ returned /\ spawned = 1
    /\ child.status = -2 /\ result = -2

\* a failure of the build directory check, of reading the backend, or of
\* driver resolution
PreSpawnFailure ==
    \/ dirState # "dir"
    \/ ~introFile.exists
    \/ ~introFile.wellformed
    \/ NoBackendRecord
    \/ BackendRecorded("ninja") /\ NoRunnerAnywhere
    \/ ReachedVs /\ Len(slns) # 1
    \/ BackendRecorded("xcode")

(* C2: when the build directory check, the read of the backend or the      *)
(* driver resolution fails, run ends with an error and no child process    *)
(* is spawned at any point of the run.                                     *)
C2_NoSpawnOnFailure ==
    PreSpawnFailure =>
        /\ spawned = 0
        /\ child = NoChild
        /\ ~returned
        /\ pc = "done" => error # NoError

C2_Witness ==
    /\ pc = "done" /\ dirState = "dir" /\ BackendRecorded("xcode")
    /\ error.type = "MesonException" /\ spawned = 0 /\ ~Accessed("spawn")

(* C3 as stated: backend ninja with the override unset or empty and        *)
(* neither ninja nor samu on the search path fails with 'Cannot find       *)
(* either ninja or samu.' and no command is synthesized or spawned.        *)
C3_DriverNotFound ==
    (dirState = "dir" /\ BackendRecorded("ninja") /\ NoRunnerAnywhere)
        => /\ cmd = <<>>
           /\ ~Accessed("spawn")
           /\ pc = "done" => error = MesonException(MsgNoRunner)

(* C4: for backend ninja the first word of the command is the override     *)
(* when it is set and non-empty, else ninja when on the search path, else  *)
(* samu when on the search path.                                           *)
C4_RunnerPriority ==
    (ReachedNinja /\ cmd # <<>>) =>
        /\ (environ \notin {None, ""}) => cmd[1] = environ
        /\ (environ \in {None, ""} /\ "ninja" \in onPath) => cmd[1] = "ninja"
        /\ (environ \in {None, ""} /\ "ninja" \notin onPath /\ "samu" \in onPath)
               => cmd[1] = "samu"

C4_Witness ==
    /\ ReachedNinja /\ environ = "custom-runner" /\ onPath = {"ninja", "samu"}
    /\ cmd # <<>> /\ cmd[1] = "custom-runner"

\* the words of cmd from position i on
CmdFrom(i) == SubSeq(cmd, i, Len(cmd))
HasWord(w) == \E i \in DOMAIN cmd : cmd[i] = w

(* C5: for backend ninja the command is the runner, -C and the posix build *)
(* directory, then -j <jobs> iff jobs > 0, then -l <load> iff load > 0,    *)
(* then clean iff the clean flag is set, in this order and nothing else.   *)
C5_NinjaVector ==
    (ReachedNinja /\ cmd # <<>>) =>
        /\ Len(cmd) >= 3
        /\ cmd[1] = runner /\ cmd[2] = "-C" /\ cmd[3] = "out/build"
        /\ CmdFrom(4) =
              (IF options.jobs > 0 THEN <<"-j", Str(options.jobs)>> ELSE <<>>)
              \o (IF options.load_average > 0
                  THEN <<"-l", Str(options.load_average)>> ELSE <<>>)
              \o (IF options.clean THEN <<"clean">> ELSE <<>>)
        /\ options.jobs <= 0 => ~HasWord("-j")
        /\ options.load_average <= 0 => ~HasWord("-l")
        /\ options.clean => cmd[Len(cmd)] = "clean"
        /\ ~options.clean => ~HasWord("clean")

C5_Witness ==
    /\ ReachedNinja /\ osname = "nt"
    /\ options.jobs = MaxJobs /\ options.load_average = MaxLoad /\ options.clean
    /\ Len(cmd) = 8 /\ cmd[4] = "-j" /\ cmd[6] = "-l" /\ cmd[8] = "clean"

\* the parallelism flag msbuild is to get
MFlag == IF options.jobs > 0 THEN "-m" \o Str(options.jobs) ELSE "-m"

(* C6 as stated: for a vs backend the command ends with -m (jobs <= 0) or  *)
(* -m<jobs> (jobs > 0), whatever the load average and the clean flag.      *)
C6_Original ==
    (ReachedVs /\ cmd # <<>>) => cmd[Len(cmd)] = MFlag

(* C6: for a vs backend the third word of the command, right after the     *)
(* solution path, is -m (jobs <= 0) or -m<jobs> (jobs > 0); it is the last *)
(* word when the clean flag is unset, and is followed by the single word   *)
(* /t:Clean when the clean flag is set.                                    *)
C6_MFlag ==
    (ReachedVs /\ cmd # <<>>) =>
        /\ Len(cmd) = (IF options.clean THEN 4 ELSE 3)
        /\ cmd[3] = MFlag
        /\ options.clean => cmd[4] = "/t:Clean"
        /\ \A i \in DOMAIN cmd : i # 3 => cmd[i] \notin {"-m", MFlag}

C6_Witness ==
    /\ ReachedVs /\ options.clean /\ options.jobs = 0
    /\ options.load_average = MaxLoad
    /\ cmd # <<>> /\ cmd[3] = "-m" /\ cmd[Len(cmd)] = "/t:Clean"

(* C7: a build directory that is missing, or is not a directory, makes run *)
(* fail with its own message each, having consulted nothing but the build  *)
(* directory path: not the introspection file, the environment, the        *)
(* search path or the solution files.                                      *)
C7_BuildDirFirst ==
    /\ MsgNoBuildDir(options.builddir, osname) # MsgNotDir
    /\ dirState # "dir" =>
          /\ \A i \in DOMAIN accessed : accessed[i] = "stat"
          /\ backend = None /\ runner = None /\ slns = <<>> /\ cmd = <<>>
          /\ pc \in {"exists", "is_dir", "done"}
    /\ (pc = "done" /\ dirState = "missing") =>
          error = MesonException(MsgNoBuildDir(options.builddir, osname))
    /\ (pc = "done" /\ dirState = "file") =>
          error = MesonException(MsgNotDir)

C7_Witness ==
    /\ pc = "done" /\ dirState = "file" /\ introFile.exists
    /\ error = MesonException("builddir path should be a directory.")
    /\ accessed = <<"stat", "stat">>

\* the state left by get_backend_from_introspect
C8_Reader ==
    (dirState = "dir" /\ Accessed("intro")) =>
        /\ ~introFile.exists =>
              /\ pc = "done"
              /\ error = MesonException(
                   "'intro-buildoptions.json' is missing! Directory is not configured yet?")
        /\ NoBackendRecord =>
              /\ pc = "done"
              /\ error = MesonException(
                   "'intro-buildoptions.json' is missing 'backend' option!")
        /\ \A b \in {"ninja", "vs2019", "xcode"} :
              BackendRecorded(b) => (backend = b /\ Accessed("intro") /\
                 (pc = "dispatch" => error = NoError))

(* C8: on an existing build directory a missing introspection file fails   *)
(* with the message naming the file; a list without an option named        *)
(* backend fails with the message naming the missing backend option;       *)
(* otherwise the value of the first option named backend is the backend;   *)
(* and the file is never written.                                          *)
C8_Introspect == []C8_Reader /\ [][introFile' = introFile]_vars

C8_Witness ==
    /\ pc = "dispatch"
    /\ introFile.wellformed
    /\ introFile.schema = << [name |-> "buildtype", value |-> "ninja"],
                             [name |-> "backend", value |-> "vs2019"] >>
    /\ backend = "vs2019"

\* absolute path of the solution file named n in the build directory
SlnAbs(n) == IF osname = "nt" THEN "C:\\work\\out\\build\\" \o n
             ELSE "/work/out/build/" \o n

(* C9: for a vs backend, exactly one solution file in the build directory  *)
(* gives a command that begins msbuild, <absolute path of that file>; zero *)
(* or several give an AssertionError, not a MesonException, and nothing is *)
(* synthesized or spawned.                                                 *)
C9_SolutionCount ==
    ReachedVs =>
        /\ Len(slns) = 1 =>
              /\ error.type \notin {"AssertionError", "MesonException"}
              /\ Len(cmd) >= 2
              /\ cmd[1] = "msbuild"
              /\ cmd[2] = SlnAbs(PathName(slns[1]))
        /\ Len(slns) # 1 =>
              /\ pc = "done"
              /\ error = AssertionError(MsgSlnAssert)
              /\ error.type # "MesonException"
              /\ cmd = <<>> /\ spawned = 0 /\ ~Accessed("spawn")

C9_Witness ==
    /\ ReachedVs /\ Len(slns) = 2 /\ pc = "done"
    /\ error.type = "AssertionError" /\ spawned = 0

LoadWarning == "WARNING: " \o MsgLoadIgnored

(* C10: for a vs backend the command is the same for every load average,   *)
(* the run goes on to the spawn whatever the load average, and the         *)
(* load-average warning is logged iff the load average is nonzero.         *)
C10_LoadAverageIgnored ==
    (ReachedVs /\ Len(slns) = 1) =>
        /\ \A la \in LoadValues \cup {1, -MaxLoad} :
              cmd = VsCmd(slns[1], [options EXCEPT !.load_average = la], osname)
        /\ ~HasWord("-l")
        /\ pc # "done" \/ Accessed("spawn")
        /\ (\E i \in DOMAIN logged : logged[i] = LoadWarning)
              <=> options.load_average # 0
        /\ Len(logged) <= 1

C10_Witness ==
    /\ ReachedVs /\ options.load_average = -1 /\ returned
    /\ logged = <<LoadWarning>>
====
